---------------------------- MODULE Spec2Model ----------------------------
(***************************************************************************)
(* Session registry, diagnostics buffers and the diagnostics tool of       *)
(* browser-mcp (src/src/session.ts, src/unnamed/part_000).                 *)
(*                                                                         *)
(* JavaScript runs one continuation at a time: every action below is the   *)
(* code that runs between two awaits of one async call, or one whole       *)
(* observer callback, or one whole synchronous handler.  An awaited        *)
(* Playwright operation takes effect in the step that resumes its caller.  *)
(*                                                                         *)
(* Pages and engines are named from small pools.  A name is handed out     *)
(* again once nothing the code can reach (the registry, a suspended call,  *)
(* the browser variable) refers to it; a handle to an engine that has been *)
(* closed becomes Dead, and a page forgets an engine no handle refers to.  *)
(***************************************************************************)
EXTENDS Integers, Sequences, FiniteSets, Bags, TLC

(* ------------------------------ bounds -------------------------------- *)
MaxLog == 1        \* Spec: entries appended to the buffers between two clears
MaxEvents == 3     \* DiagSpec, NetSpec: entries appended between two clears, plus requests in flight
MaxClock == 1      \* NetSpec: milliseconds that pass (Date.now() runs from 0)
MaxFeed == 102     \* BufSpec: entries one page appends to one buffer between two clears
MaxSteps == 3      \* SeqSpec: steps of a sequence
MaxLife == 2       \* LifeSpec: events of the pages that are buffered or in flight

Names == {"a", "b"}          \* session names callers use
Clients == {"c1", "c2"}      \* callers; each has at most one registry call in flight
\* names for the pages and engines that can be referred to at the same time:
\* a page is named after the session name it was created for
PageIds == Names \X (1..Cardinality(Clients))
EngineIds == 1..Cardinality(Clients)
NoPage == <<"", 0>>
Dead == -1                   \* a handle to an engine that was closed

Levels == {"error", "log"}   \* msg.type() of the console messages
Urls == {1}                  \* DiagSpec: the URLs pages request
Undefined == -1              \* undefined, for a number
NoLevel == ""                \* a level parameter that is not given
Unknown == "nope"            \* a session name nobody opens
StatusCodes == {200}         \* res.status() of the responses
FeedPage == <<"a", 1>>       \* BufSpec: the page of the one session

\* session.ts:8
MAX_BUFFER_SIZE == 100

(* ------------------------------ state --------------------------------- *)
VARIABLES
    browser,    \* session.ts:39  the shared engine handle; 0 is null
    engines,    \* engines[e] \in {"free", "up", "down"}: isConnected() is "up"
    pages,      \* pages[p] = [engine, st], st \in {"free", "open", "closed"}
    sessions,   \* session.ts:40  the Map, in insertion order: [id, page]
    diag,       \* session.ts:72  diag[p] = [console, network] of page p
    arrived,    \* history: what was appended to each buffer since its last clear
    calls,      \* bag of the async registry calls suspended at an await
    pendingRequests,  \* session.ts:41  the Map, as the set of [id, start, method, url]
    requests,   \* bag of the requests in flight: [page, method, url, id]
    now,        \* Date.now()
    action,     \* the performAction call suspended at an await, or NoAction
    ops,        \* history: the page operations that call invoked, with their outcomes
    location,   \* page.url() of the page performAction works on
    run,        \* the run of the SequenceRunner
    reply       \* the call that returned (or raised) in this step, if any

vars == <<browser, engines, pages, sessions, diag, arrived, calls,
          pendingRequests, requests, now, action, ops, location, run, reply>>
net == <<pendingRequests, requests, now>>
tools == <<action, ops, location, run>>

NoReply == [op |-> "none"]
NoAction == [pc |-> "idle"]
NoRun == [state |-> "NotStarted"]
Locations == {"/1", "/2"}    \* the URLs the page can be at

\* no action is being performed and no sequence has run
ToolsIdle ==
    /\ action = NoAction
    /\ ops = <<>>
    /\ location = "/1"
    /\ run = NoRun
NoDiag == [console |-> <<>>, network |-> <<>>]
NoPageRec == [engine |-> 0, st |-> "free"]

Min(x, y) == IF x <= y THEN x ELSE y
Max(x, y) == IF x >= y THEN x ELSE y

(* --------------------------- Map helpers ------------------------------ *)
\* the position of key n in the Map, 0 when absent
IndexOf(n) ==
    IF \E i \in 1..Len(sessions) : sessions[i].id = n
    THEN CHOOSE i \in 1..Len(sessions) : sessions[i].id = n
    ELSE 0

\* sessions.has(sessionId) / sessions.get(sessionId) is defined
SessionsHas(n) == IndexOf(n) # 0

\* sessions.get(sessionId); only used where SessionsHas(n)
getSession(n) == sessions[IndexOf(n)]

\* Array.from(sessions.keys())
listSessions == [i \in 1..Len(sessions) |-> sessions[i].id]

\* Map.prototype.set: an existing key keeps its position and gets the value
MapSet(m, n, p) ==
    IF \E i \in 1..Len(m) : m[i].id = n
    THEN [i \in 1..Len(m) |-> IF m[i].id = n THEN [id |-> n, page |-> p] ELSE m[i]]
    ELSE Append(m, [id |-> n, page |-> p])

\* a delete that removes nothing
MapDelete_nothing(m, n) == m

\* Map.prototype.delete
MapDelete(m, n) == SelectSeq(m, LAMBDA s : s.id # n)

(* --------------------------- call records ----------------------------- *)
\* op/pc: which call and which await it is suspended at; name, b, page: its
\* locals (sessionId, b, page or session.page); idx: entries of the Map a
\* shutdown loop has consumed; alone (history, of a shutdown): no other
\* registry call has been in flight since it was called.
NewCall(op, pc, n, b, p, i) ==
    [op |-> op, pc |-> pc, name |-> n, b |-> b, page |-> p, idx |-> i,
     alone |-> (op = "shutdown")]

InFlight == BagToSet(calls)

RECURSIVE BagSum(_, _)
BagSum(B, S) ==
    IF S = {} THEN 0 ELSE LET c == CHOOSE x \in S : TRUE IN B[c] + BagSum(B, S \ {c})

\* the bag of F(c) for the calls c of bag B
BagMap(B, F(_)) ==
    LET S == BagToSet(B)
    IN  [t \in {F(c) : c \in S} |-> BagSum(B, {c \in S : F(c) = t})]

One(c) == SetToBag({c})


\* browser.isConnected() of a handle e
Connected(e) == e \in EngineIds /\ engines[e] = "up"

(* ----------------------- pages and engines ---------------------------- *)
PageRefs(ss, B) ==
    {ss[i].page : i \in 1..Len(ss)} \cup {c.page : c \in BagToSet(B)}

\* forget the pages that nothing refers to and that have no request R in flight
KeepPages(ps, ss, B, R) ==
    LET refs == PageRefs(ss, B) \cup {r.page : r \in BagToSet(R)}
    IN  [p \in PageIds |-> IF p \in refs THEN ps[p] ELSE NoPageRec]

\* a handle to a closed engine is Dead
KeepHandles(es, B) ==
    BagMap(B, LAMBDA c : IF c.b \in EngineIds /\ es[c.b] = "down"
                         THEN [c EXCEPT !.b = Dead] ELSE c)

\* a shutdown that shares the event loop with another call is not alone
Alone(B) ==
    BagMap(B, LAMBDA c : IF c.alone /\ BagCardinality(B) > 1
                         THEN [c EXCEPT !.alone = FALSE] ELSE c)

EngineRefs(br, B) == {br} \cup {c.b : c \in BagToSet(B)}

\* a page forgets an engine that no handle refers to
KeepLinks(ps, br, B) ==
    LET refs == EngineRefs(br, B)
    IN  [p \in PageIds |-> IF ps[p].engine \in refs THEN ps[p]
                           ELSE [ps[p] EXCEPT !.engine = 0]]

\* forget the engines no handle refers to
KeepEngines(es, br, B) ==
    LET refs == EngineRefs(br, B)
    IN  [e \in EngineIds |-> IF e \in refs THEN es[e] ELSE "free"]

KeepDiag(d, ps) == [p \in PageIds |-> IF ps[p].st = "free" THEN NoDiag ELSE d[p]]

\* a request can still end while its page is referred to, or was closed with
\* the request in flight; the others are forgotten
KeepRequests(R, ps, ss, B) ==
    LET S == {r \in BagToSet(R) : r.page \in PageRefs(ss, B) \/ ps[r.page].st = "closed"}
    IN  [r \in S |-> R[r]]

\* the name a new page (for session name n) or a new engine gets
FreshPage(n) ==
    <<n, CHOOSE k \in 1..Cardinality(Clients) :
            /\ pages[<<n, k>>].st = "free"
            /\ \A j \in 1..(k - 1) : pages[<<n, j>>].st # "free">>
FreshEngine ==
    CHOOSE e \in EngineIds :
        engines[e] = "free" /\ \A f \in 1..(e - 1) : engines[f] # "free"

\* browser.close()
Closed(es, e) == [f \in EngineIds |-> IF f = e THEN "down" ELSE es[f]]

\* page.close() / browser.close() as they change the pages
ClosePage(ps, p) == [ps EXCEPT ![p].st = "closed"]
CloseEngine(ps, e) ==
    [p \in PageIds |-> IF ps[p].engine = e THEN [ps[p] EXCEPT !.st = "closed"] ELSE ps[p]]

\* the state after a registry step that leaves the values br, es, ps, ss, B
Registry(br, es, ps, ss, B) ==
    /\ browser' = br
    /\ sessions' = ss
    /\ calls' = Alone(KeepHandles(es, B))
    /\ requests' = KeepRequests(requests, ps, ss, calls')
    /\ pages' = KeepLinks(KeepPages(ps, ss, calls', requests'), br, calls')
    /\ engines' = KeepEngines(es, br, calls')
    /\ diag' = KeepDiag(diag, pages')
    /\ arrived' = KeepDiag(arrived, pages')
    /\ UNCHANGED <<pendingRequests, now, tools>>

(* ------------------------------ Init ---------------------------------- *)
Init ==
    /\ browser = 0
    /\ engines = [e \in EngineIds |-> "free"]
    /\ pages = [p \in PageIds |-> NoPageRec]
    /\ sessions = <<>>
    /\ diag = [p \in PageIds |-> NoDiag]
    /\ arrived = [p \in PageIds |-> NoDiag]
    /\ calls = EmptyBag
    /\ pendingRequests = {}
    /\ requests = EmptyBag
    /\ now = 0
    /\ ToolsIdle
    /\ reply = NoReply

(* ---------------------------- openSession ----------------------------- *)
\* openSession without lines 64-66
openSession_call_unchecked(n) ==
    /\ BagCardinality(calls) < Cardinality(Clients)
    /\ reply' = NoReply
    /\ Registry(browser, engines, pages, sessions,
                calls (+) One(NewCall("open", IF Connected(browser) THEN "newPage" ELSE "launch",
                                      n, IF Connected(browser) THEN browser ELSE 0, NoPage, 0)))

\* lines 63-68 and ensureBrowser up to its await (49-51)
openSession_call(n) ==
    /\ BagCardinality(calls) < Cardinality(Clients)
    /\ IF SessionsHas(n)
       THEN /\ reply' = [op |-> "open", name |-> n, ret |-> "duplicate"]
            /\ UNCHANGED <<browser, engines, pages, sessions, diag, arrived, calls, net, tools>>
       ELSE /\ reply' = NoReply
            /\ IF ~Connected(browser)
               THEN Registry(browser, engines, pages, sessions,
                             calls (+) One(NewCall("open", "launch", n, 0, NoPage, 0)))
               ELSE Registry(browser, engines, pages, sessions,
                             calls (+) One(NewCall("open", "newPage", n, browser, NoPage, 0)))

\* chromium.launch() resolved: lines 51-53, then 69 up to its await
openSession_launched(c) ==
    /\ c.op = "open" /\ c.pc = "launch"
    /\ reply' = NoReply
    /\ Registry(FreshEngine, [engines EXCEPT ![FreshEngine] = "up"], pages, sessions,
                calls (-) One(c) (+) One([c EXCEPT !.pc = "newPage", !.b = FreshEngine]))

\* b.newPage() settled: line 69, then 70 up to its await
openSession_newPage(c) ==
    /\ c.op = "open" /\ c.pc = "newPage"
    /\ IF Connected(c.b)
       THEN /\ reply' = NoReply
            /\ Registry(browser, engines,
                        [pages EXCEPT ![FreshPage(c.name)] = [engine |-> c.b, st |-> "open"]], sessions,
                        calls (-) One(c) (+)
                            One([c EXCEPT !.pc = "viewport", !.page = FreshPage(c.name)]))
       ELSE /\ reply' = [op |-> "open", name |-> c.name, ret |-> "threw"]
            /\ Registry(browser, engines, pages, sessions, calls (-) One(c))

\* page.setViewportSize() settled: lines 70-136 up to the await of goto
openSession_viewport(c) ==
    /\ c.op = "open" /\ c.pc = "viewport"
    /\ IF pages[c.page].st = "open"
       THEN /\ reply' = NoReply
            /\ Registry(browser, engines, pages, sessions,
                        calls (-) One(c) (+) One([c EXCEPT !.pc = "goto"]))
       ELSE /\ reply' = [op |-> "open", name |-> c.name, ret |-> "threw"]
            /\ Registry(browser, engines, pages, sessions, calls (-) One(c))

\* page.goto() settled: lines 136-146
openSession_goto(c) ==
    /\ c.op = "open" /\ c.pc = "goto"
    /\ \E ok \in BOOLEAN :
         IF ok /\ pages[c.page].st = "open"
         THEN /\ reply' = [op |-> "open", name |-> c.name, ret |-> "ok"]
              /\ Registry(browser, engines, pages, MapSet(sessions, c.name, c.page),
                          calls (-) One(c))
         ELSE /\ reply' = [op |-> "open", name |-> c.name, ret |-> "threw"]
              /\ Registry(browser, engines, pages, sessions, calls (-) One(c))

(* ---------------------------- closeSession ---------------------------- *)
\* a live Map iterator after an entry was deleted at position at (0: none)
IterAfterDelete(B, at) ==
    BagMap(B, LAMBDA c : IF c.pc = "loop" /\ at # 0 /\ c.idx >= at
                         THEN [c EXCEPT !.idx = c.idx - 1] ELSE c)

\* a live Map iterator after sessions.clear()
IterAfterClear(B) ==
    BagMap(B, LAMBDA c : IF c.pc = "loop" THEN [c EXCEPT !.idx = 0] ELSE c)

\* lines 153-159 up to the await of page.close()
closeSession_call(n) ==
    /\ BagCardinality(calls) < Cardinality(Clients)
    /\ IF ~SessionsHas(n)
       THEN /\ reply' = [op |-> "close", name |-> n, ret |-> "false"]
            /\ UNCHANGED <<browser, engines, pages, sessions, diag, arrived, calls, net, tools>>
       ELSE /\ reply' = NoReply
            /\ Registry(browser, engines, pages, sessions,
                        calls (+)
                            One(NewCall("close", "pageClose", n, 0, getSession(n).page, 0)))

\* a close that takes the session out of the Map whether or not page.close()
\* succeeded
closeSession_pageClosed_eager(c) ==
    /\ c.op = "close" /\ c.pc = "pageClose"
    /\ \E ok \in BOOLEAN :
         LET ss == MapDelete(sessions, c.name)
             rest == IterAfterDelete(calls (-) One(c), IndexOf(c.name))
         IN  IF ~ok
             THEN /\ reply' = [op |-> "close", name |-> c.name, ret |-> "threw"]
                  /\ Registry(browser, engines, pages, ss, rest)
             ELSE IF Len(ss) = 0 /\ browser # 0
             THEN /\ reply' = NoReply
                  /\ Registry(browser, engines, ClosePage(pages, c.page), ss,
                              rest (+) One([c EXCEPT !.pc = "browserClose", !.b = browser]))
             ELSE /\ reply' = [op |-> "close", name |-> c.name, ret |-> "true"]
                  /\ Registry(browser, engines, ClosePage(pages, c.page), ss, rest)

\* session.page.close() settled: lines 159-168
closeSession_pageClosed(c) ==
    /\ c.op = "close" /\ c.pc = "pageClose"
    /\ \E ok \in BOOLEAN :
         IF ~ok
         THEN /\ reply' = [op |-> "close", name |-> c.name, ret |-> "threw"]
              /\ Registry(browser, engines, pages, sessions, calls (-) One(c))
         ELSE LET ss == MapDelete(sessions, c.name)
                  rest == IterAfterDelete(calls (-) One(c), IndexOf(c.name))
              IN  IF Len(ss) = 0 /\ browser # 0
                  THEN /\ reply' = NoReply
                       /\ Registry(browser, engines, ClosePage(pages, c.page), ss,
                                   rest (+) One([c EXCEPT !.pc = "browserClose", !.b = browser]))
                  ELSE /\ reply' = [op |-> "close", name |-> c.name, ret |-> "true"]
                       /\ Registry(browser, engines, ClosePage(pages, c.page), ss, rest)

\* browser.close() settled: lines 164-168
closeSession_browserClosed(c) ==
    /\ c.op = "close" /\ c.pc = "browserClose"
    /\ reply' = [op |-> "close", name |-> c.name, ret |-> "true"]
    /\ Registry(0, Closed(engines, c.b), CloseEngine(pages, c.b), sessions,
                calls (-) One(c))

(* ------------------------------ shutdown ------------------------------ *)
\* what a shutdown call c reports: ret, and (history) whether it ran alone and
\* how many entries its loop consumed
ShutdownReply(c, ret, rest) ==
    [op |-> "shutdown", name |-> "", ret |-> ret,
     alone |-> c.alone /\ rest = EmptyBag, closed |-> c.idx]

\* lines 179-182 without sessions.clear()
shutdown_clear_kept(c, ps, rest) ==
    IF browser # 0
    THEN /\ reply' = NoReply
         /\ Registry(browser, engines, ps, sessions,
                     rest (+) One([c EXCEPT !.pc = "browserClose", !.b = browser,
                                            !.page = NoPage]))
    ELSE /\ reply' = ShutdownReply(c, "done", rest)
         /\ Registry(browser, engines, ps, sessions, rest)

\* lines 179-182 up to the await of browser.close(), or to the return
shutdown_clear(c, ps, rest) ==
    IF browser # 0
    THEN /\ reply' = NoReply
         /\ Registry(browser, engines, ps, <<>>,
                     IterAfterClear(rest) (+)
                         One([c EXCEPT !.pc = "browserClose", !.b = browser,
                                       !.page = NoPage]))
    ELSE /\ reply' = ShutdownReply(c, "done", rest)
         /\ Registry(browser, engines, ps, <<>>, IterAfterClear(rest))

\* lines 175-177 up to the first await of page.close() (or 179-182)
shutdown_call ==
    /\ BagCardinality(calls) < Cardinality(Clients)
    /\ IF sessions # <<>>
       THEN /\ reply' = NoReply
            /\ Registry(browser, engines, pages, sessions,
                        calls (+)
                            One(NewCall("shutdown", "loop", "", 0, sessions[1].page, 1)))
       ELSE shutdown_clear(NewCall("shutdown", "loop", "", 0, NoPage, 0), pages, calls)

\* session.page.close() settled: lines 176-182
shutdown_pageClosed(c) ==
    /\ c.op = "shutdown" /\ c.pc = "loop"
    /\ \E ok \in BOOLEAN :
         IF ~ok
         THEN /\ reply' = ShutdownReply(c, "threw", calls (-) One(c))
              /\ Registry(browser, engines, pages, sessions, calls (-) One(c))
         ELSE IF c.idx < Len(sessions)
              THEN /\ reply' = NoReply
                   /\ Registry(browser, engines, ClosePage(pages, c.page), sessions,
                               calls (-) One(c) (+)
                                   One([c EXCEPT !.idx = c.idx + 1,
                                                 !.page = sessions[c.idx + 1].page]))
              ELSE shutdown_clear(c, ClosePage(pages, c.page), calls (-) One(c))

\* browser.close() settled: lines 182-184
shutdown_browserClosed(c) ==
    /\ c.op = "shutdown" /\ c.pc = "browserClose"
    /\ reply' = ShutdownReply(c, "done", calls (-) One(c))
    /\ Registry(0, Closed(engines, c.b), CloseEngine(pages, c.b), sessions,
                calls (-) One(c))

(* ---------------------- diagnostics observers ------------------------- *)
\* a push that evicts nothing
addToBuffer_unbounded(buffer, entry) == Append(buffer, entry)

\* lines 56-61
addToBuffer(buffer, entry) ==
    LET pushed == Append(buffer, entry)
    IN  IF Len(pushed) > MAX_BUFFER_SIZE THEN Tail(pushed) ELSE pushed

\* page p loads or has loaded a document (line 136 on) and can emit events
Emits(p) ==
    /\ pages[p].st = "open"
    /\ \/ \E i \in 1..Len(sessions) : sessions[i].page = p
       \/ \E c \in InFlight : c.op = "open" /\ c.pc = "goto" /\ c.page = p

\* observers that are registered once the session is in the Map
Listening_registered(p) == \E i \in 1..Len(sessions) : sessions[i].page = p

\* the observers of page p are registered: lines 78-134 have run, which they
\* have from the time openSession awaits goto, for as long as the page exists
Listening(p) ==
    /\ pages[p].st # "free"
    /\ ~ \E c \in InFlight : c.op = "open" /\ c.pc = "viewport" /\ c.page = p

\* page.on('console'), lines 78-87: the page logs its next message, whose
\* text is its number since the last clear of the buffer
console(p, level) ==
    /\ Emits(p)
    /\ LET entry == [level |-> level, text |-> Len(arrived[p].console) + 1]
       IN  /\ diag' = IF Listening(p)
                      THEN [diag EXCEPT ![p].console = addToBuffer(@, entry)]
                      ELSE diag
           /\ arrived' = [arrived EXCEPT ![p].console = Append(@, entry)]
    /\ reply' = NoReply
    /\ UNCHANGED <<browser, engines, pages, sessions, calls, net, tools>>

\* page.on('request'), lines 90-99
request(p, url) ==
    /\ Emits(p)
    /\ LET requestId == <<url, now>>
       IN  /\ pendingRequests' =
                 IF Listening(p)
                 THEN {q \in pendingRequests : q.id # requestId} \cup
                      {[id |-> requestId, start |-> now, method |-> "GET", url |-> url]}
                 ELSE pendingRequests
           /\ requests' = requests (+)
                 One([page |-> p, method |-> "GET", url |-> url, id |-> requestId])
    /\ reply' = NoReply
    /\ UNCHANGED <<browser, engines, pages, sessions, diag, arrived, calls, now, tools>>

\* pendingRequests.get(requestId): the start of the entry, Undefined when absent
PendingStart(requestId) ==
    IF \E q \in pendingRequests : q.id = requestId
    THEN (CHOOSE q \in pendingRequests : q.id = requestId).start
    ELSE Undefined

\* a lookup that never finds the pending entry
Duration_missing(requestId) == Undefined

\* lines 110 and 127
Duration(requestId) ==
    IF PendingStart(requestId) # Undefined THEN now - PendingStart(requestId) ELSE Undefined

\* an observer that appends the entry and leaves the pending entry in the map
Settle_leaky(r, entry) ==
    /\ diag' = [diag EXCEPT ![r.page].network = addToBuffer(@, entry)]
    /\ arrived' = [arrived EXCEPT ![r.page].network = Append(@, entry)]
    /\ requests' = requests (-) One(r)
    /\ reply' = NoReply
    /\ UNCHANGED <<browser, engines, pages, sessions, calls, pendingRequests, now, tools>>

\* an observer that looks the buffer up by session name when the event arrives
Settle_byName(r, entry) ==
    LET p == IF SessionsHas(r.page[1]) THEN getSession(r.page[1]).page ELSE r.page
    IN  /\ diag' = [diag EXCEPT ![p].network = addToBuffer(@, entry)]
        /\ arrived' = [arrived EXCEPT ![r.page].network = Append(@, entry)]
        /\ pendingRequests' = {q \in pendingRequests : q.id # r.id}
        /\ requests' = requests (-) One(r)
        /\ reply' = NoReply
        /\ UNCHANGED <<browser, engines, pages, sessions, calls, now, tools>>

\* the observer appends entry for request r and drops the pending entry
Settle(r, entry) ==
    /\ diag' = [diag EXCEPT ![r.page].network = addToBuffer(@, entry)]
    /\ arrived' = [arrived EXCEPT ![r.page].network = Append(@, entry)]
    /\ pendingRequests' = {q \in pendingRequests : q.id # r.id}
    /\ requests' = requests (-) One(r)
    /\ reply' = NoReply
    /\ UNCHANGED <<browser, engines, pages, sessions, calls, now, tools>>

\* the request r ends with no observer registered to see it
Unheard(r, entry) ==
    /\ arrived' = [arrived EXCEPT ![r.page].network = Append(@, entry)]
    /\ requests' = requests (-) One(r)
    /\ reply' = NoReply
    /\ UNCHANGED <<browser, engines, pages, sessions, diag, calls, pendingRequests, now, tools>>

\* the entry of a response, lines 106-112
Answered(r, status) ==
    [method |-> r.method, url |-> r.url, status |-> status, error |-> "",
     duration |-> Duration(r.id)]

\* the entry of a failure, lines 123-129
Broken(r) ==
    [method |-> r.method, url |-> r.url, status |-> Undefined,
     error |-> "Request failed", duration |-> Duration(r.id)]

\* page.on('response'), lines 101-117
response(r, status) ==
    /\ Emits(r.page)
    /\ IF Listening(r.page) THEN Settle(r, Answered(r, status))
       ELSE Unheard(r, Answered(r, status))

\* page.on('requestfailed'), lines 119-134
requestfailed(r) ==
    /\ Emits(r.page)
    /\ IF Listening(r.page) THEN Settle(r, Broken(r)) ELSE Unheard(r, Broken(r))

\* page.on('requestfailed'), lines 119-134, for a request that was in flight
\* when its page was closed
requestfailed_late(r) ==
    /\ pages[r.page].st = "closed"
    /\ IF Listening(r.page) THEN Settle(r, Broken(r)) ELSE Unheard(r, Broken(r))

\* a millisecond passes
Tick ==
    /\ now' = now + 1
    /\ reply' = NoReply
    /\ UNCHANGED <<browser, engines, pages, sessions, diag, arrived, calls,
                   pendingRequests, requests, tools>>

RECURSIVE SumLen(_, _)
SumLen(f, S) ==
    IF S = {} THEN 0
    ELSE LET x == CHOOSE y \in S : TRUE
         IN  Len(f[x].console) + Len(f[x].network) + SumLen(f, S \ {x})

\* entries appended since the last clears, over all buffers
Buffered == SumLen(arrived, PageIds)

(* ------------------------- diagnostics tool --------------------------- *)
\* Array.prototype.slice(start)
Slice(arr, start) ==
    LET k == IF start < 0 THEN Max(Len(arr) + start, 0) ELSE Min(start, Len(arr))
    IN  SubSeq(arr, k + 1, Len(arr))

\* Array.prototype.reverse()
Reverse(arr) == [i \in 1..Len(arr) |-> arr[Len(arr) + 1 - i]]

\* part_000 lines 76-80: the copy of the buffer, filtered when a level is given
consoleEntries(buffer, level) ==
    IF level # NoLevel THEN SelectSeq(buffer, LAMBDA e : e.level = level) ELSE buffer

\* part_000 lines 75 and 91
Wants(type, kind) == type = kind \/ type = "all"

\* part_000 lines 70-98: result.console and result.network, read from the
\* buffers d of the session (a kind that is not requested is left out: <<>>)
Read(d, type, level, limit) ==
    [console |-> IF Wants(type, "console")
                 THEN Reverse(Slice(consoleEntries(d.console, level), -limit))
                 ELSE <<>>,
     network |-> IF Wants(type, "network")
                 THEN Reverse(Slice(d.network, -limit))
                 ELSE <<>>]

\* a clear that empties both buffers
Clear_both(d, type, clear) == IF clear THEN NoDiag ELSE d

\* part_000 line 58
DefaultLimit == 50

\* a clear that drops only as many of the newest entries as a default read returns
Clear_newest(d, type, clear) ==
    [console |-> IF Wants(type, "console") /\ clear
                 THEN SubSeq(d.console, 1, Max(0, Len(d.console) - DefaultLimit))
                 ELSE d.console,
     network |-> IF Wants(type, "network") /\ clear
                 THEN SubSeq(d.network, 1, Max(0, Len(d.network) - DefaultLimit))
                 ELSE d.network]

\* part_000 lines 86-88 and 95-97: the buffers d after the call
Clear(d, type, clear) ==
    [console |-> IF Wants(type, "console") /\ clear THEN <<>> ELSE d.console,
     network |-> IF Wants(type, "network") /\ clear THEN <<>> ELSE d.network]

\* part_000 lines 64-67: what the tool returns for a session it does not find
DiagError(sessionId) ==
    [op |-> "diagnostics", ret |-> "error", session |-> sessionId,
     availableSessions |-> listSessions]

\* part_000 lines 100-104: what the tool returns, and (history) the
\* parameters of the call
DiagReply(sessionId, type, level, limit, clear, result) ==
    [op |-> "diagnostics", ret |-> "result", session |-> sessionId, type |-> type,
     level |-> level, limit |-> limit, clear |-> clear,
     console |-> result.console, network |-> result.network]

\* a handler that clears the buffers before it reads them
handler_clear_first(sessionId, type, level, limit, clear) ==
    IF ~SessionsHas(sessionId)
    THEN /\ reply' = DiagError(sessionId)
         /\ UNCHANGED <<browser, engines, pages, sessions, diag, arrived, calls, net, tools>>
    ELSE LET p == getSession(sessionId).page
         IN  /\ reply' = DiagReply(sessionId, type, level, limit, clear,
                                   Read(Clear(diag[p], type, clear), type, level, limit))
             /\ diag' = [diag EXCEPT ![p] = Clear(@, type, clear)]
             /\ arrived' = [arrived EXCEPT ![p] = Clear(@, type, clear)]
             /\ UNCHANGED <<browser, engines, pages, sessions, calls, net, tools>>

\* part_000 lines 53-105, the handler of the diagnostics tool, with the
\* parameters as they are after the defaults; it has no await
handler(sessionId, type, level, limit, clear) ==
    IF ~SessionsHas(sessionId)
    THEN /\ reply' = DiagError(sessionId)
         /\ UNCHANGED <<browser, engines, pages, sessions, diag, arrived, calls, net, tools>>
    ELSE LET p == getSession(sessionId).page
         IN  /\ reply' = DiagReply(sessionId, type, level, limit, clear,
                                   Read(diag[p], type, level, limit))
             /\ diag' = [diag EXCEPT ![p] = Clear(@, type, clear)]
             /\ arrived' = [arrived EXCEPT ![p] = Clear(@, type, clear)]
             /\ UNCHANGED <<browser, engines, pages, sessions, calls, net, tools>>

Types == {"console", "network", "all"}
Limits == {0, 1, DefaultLimit}
BufLimits == {0, 1, DefaultLimit, 150}

(* ------------------------- performAction ------------------------------ *)
Missing == "undefined"       \* a parameter the caller left out
Unset == "unset"             \* a field of the result that was never assigned
NoMatch == "#none"           \* a selector that matches no element of the page
ActionTypes == {"navigate", "back", "forward", "click", "fill", "select",
                "check", "uncheck", "press", "scroll", "highlight"}
Selectors == {Missing, "", "#a", NoMatch}
Values == {Missing, "", "up"}
UrlParams == {Missing, ""} \cup Locations
Outcomes == {"ok", "fail"}

\* !x for an optional string
Falsy(x) == x \in {Missing, ""}

\* line 39
NewResult(type) ==
    [success |-> TRUE, action |-> type, url |-> Unset, title |-> Unset,
     selector |-> Unset, direction |-> Unset]

\* the throw of the selected branch before its first page operation, "" if none
Validate(type, selector, value, url) ==
    CASE type = "navigate" ->
           IF Falsy(url) THEN "navigate requires url parameter" ELSE ""
      [] type \in {"back", "forward", "scroll"} -> ""
      [] type \in {"click", "check", "uncheck", "highlight"} ->
           IF Falsy(selector) THEN type \o " requires selector parameter" ELSE ""
      [] type \in {"fill", "select"} ->
           IF Falsy(selector) THEN type \o " requires selector parameter"
           ELSE IF value = Missing THEN type \o " requires value parameter"
           ELSE ""
      [] type = "press" ->
           IF Falsy(selector) /\ Falsy(value)
           THEN "press requires selector or value (key) parameter" ELSE ""
      [] OTHER -> "Unknown action type"

\* the page operation the selected branch awaits first
PrimaryOp(type, selector) ==
    CASE type = "navigate" -> "goto"
      [] type = "back" -> "goBack"
      [] type = "forward" -> "goForward"
      [] type = "click" -> "click"
      [] type = "fill" -> "fill"
      [] type = "select" -> "selectOption"
      [] type = "check" -> "check"
      [] type = "uncheck" -> "uncheck"
      [] type = "press" -> IF Falsy(selector) THEN "keyboard.press" ELSE "press"
      [] OTHER -> "evaluate"

PrimaryOps == {"goto", "goBack", "goForward", "click", "fill", "selectOption",
               "check", "uncheck", "press", "keyboard.press", "evaluate"}

\* the operation rejects when the selector matches nothing; the scroll script
\* tests for the element (line 130) and so does not
NeedsMatch(type, selector) ==
    \/ type \in {"click", "fill", "select", "check", "uncheck", "highlight"}
    \/ type = "press" /\ ~Falsy(selector)

\* the operation can take the page to another URL
Navigates(type) == type \in {"navigate", "back", "forward", "click", "press"}

\* the page operation name is invoked and awaited
Invoke(log, name) == Append(log, [op |-> name, st |-> "pending"])

\* the awaited operation resolves ("ok") or rejects ("fail")
Done(log, outcome) == [log EXCEPT ![Len(log)].st = outcome]

\* performAction returns result
Returned(a, result) ==
    [op |-> "action", ret |-> "result", type |-> a.type, selector |-> a.selector,
     from |-> a.from, result |-> result]

\* performAction rejects the call with parameters a
Threw(a, error) ==
    [op |-> "action", ret |-> "threw", type |-> a.type, selector |-> a.selector,
     value |-> a.value, url |-> a.url, error |-> error]

\* the destructured parameters, line 38
Params(type, selector, value, url) ==
    [type |-> type, selector |-> selector, value |-> value, url |-> url]

\* a call that invokes the page operation without testing the parameters
performAction_call_unvalidated(type, selector, value, url) ==
    /\ action = NoAction
    /\ IF type \notin ActionTypes
       THEN /\ reply' = Threw(Params(type, selector, value, url), "Unknown action type")
            /\ ops' = <<>>
            /\ UNCHANGED action
       ELSE /\ action' = [pc |-> "primary", type |-> type, selector |-> selector,
                          value |-> value, url |-> url, from |-> location,
                          result |-> NewResult(type)]
            /\ ops' = Invoke(<<>>, PrimaryOp(type, selector))
            /\ reply' = NoReply
    /\ UNCHANGED <<browser, engines, pages, sessions, diag, arrived, calls, net, location>>

\* performAction up to its first await: lines 38-46, 52, 58, 64-67, 74-80,
\* 85-91, 96-99, 104-107, 112-119, 125-142, 148-152, 187-188
performAction_call(type, selector, value, url) ==
    /\ action = NoAction
    /\ IF Validate(type, selector, value, url) # ""
       THEN /\ reply' = Threw(Params(type, selector, value, url),
                            Validate(type, selector, value, url))
            /\ ops' = <<>>
            /\ UNCHANGED action
       ELSE /\ action' = [pc |-> "primary", type |-> type, selector |-> selector,
                          value |-> value, url |-> url, from |-> location,
                          result |-> NewResult(type)]
            /\ ops' = Invoke(<<>>, PrimaryOp(type, selector))
            /\ reply' = NoReply
    /\ UNCHANGED <<browser, engines, pages, sessions, diag, arrived, calls, net, location>>

\* the result of the branch once its only page operation has resolved:
\* lines 81, 92, 100, 108, 143, 183
Filled(a) ==
    IF a.type = "scroll"
    THEN [a.result EXCEPT !.direction = IF Falsy(a.value) THEN "down" ELSE a.value]
    ELSE [a.result EXCEPT !.selector = a.selector]

\* where the page is after the operation: goto loads its URL, the other
\* navigating operations load any page or none, the rest leave the page
Lands(a, outcome, loc) ==
    /\ ~Navigates(a.type) => loc = location
    /\ a.type = "navigate" /\ outcome = "ok" => loc = a.url

\* a primary operation whose rejection is turned into a result
performAction_primary_hidden(outcome, loc) ==
    /\ action.pc = "primary"
    /\ outcome = "ok" => ~(NeedsMatch(action.type, action.selector) /\ action.selector = NoMatch)
    /\ Lands(action, outcome, loc)
    /\ location' = loc
    /\ IF outcome = "fail"
       THEN /\ reply' = Returned(action, [action.result EXCEPT !.success = FALSE])
            /\ action' = NoAction
            /\ ops' = Done(ops, outcome)
       ELSE IF action.type \in {"navigate", "back", "forward"}
       THEN /\ action' = [action EXCEPT !.pc = "title", !.result.url = loc]
            /\ ops' = Invoke(Done(ops, outcome), "title")
            /\ reply' = NoReply
       ELSE IF action.type \in {"click", "press"}
       THEN /\ action' = [action EXCEPT !.pc = "wait"]
            /\ ops' = Invoke(Done(ops, outcome), "waitForLoadState")
            /\ reply' = NoReply
       ELSE /\ reply' = Returned(action, Filled(action))
            /\ action' = NoAction
            /\ ops' = Done(ops, outcome)
    /\ UNCHANGED <<browser, engines, pages, sessions, diag, arrived, calls, net>>

\* the primary page operation settles: lines 46-48, 52-54, 58-60, 67-69,
\* 80-81, 91-92, 99-100, 107-108, 116-120, 127-143, 152-183
performAction_primary(outcome, loc) ==
    /\ action.pc = "primary"
    /\ outcome = "ok" => ~(NeedsMatch(action.type, action.selector) /\ action.selector = NoMatch)
    /\ Lands(action, outcome, loc)
    /\ location' = loc
    /\ IF outcome = "fail"
       THEN /\ reply' = Threw(action, PrimaryOp(action.type, action.selector) \o " failed")
            /\ action' = NoAction
            /\ ops' = Done(ops, outcome)
       ELSE IF action.type \in {"navigate", "back", "forward"}
       THEN /\ action' = [action EXCEPT !.pc = "title", !.result.url = loc]
            /\ ops' = Invoke(Done(ops, outcome), "title")
            /\ reply' = NoReply
       ELSE IF action.type \in {"click", "press"}
       THEN /\ action' = [action EXCEPT !.pc = "wait"]
            /\ ops' = Invoke(Done(ops, outcome), "waitForLoadState")
            /\ reply' = NoReply
       ELSE /\ reply' = Returned(action, Filled(action))
            /\ action' = NoAction
            /\ ops' = Done(ops, outcome)
    /\ UNCHANGED <<browser, engines, pages, sessions, diag, arrived, calls, net>>

\* page.title() settles: lines 48, 54, 60
performAction_title(outcome) ==
    /\ action.pc = "title"
    /\ IF outcome = "fail"
       THEN reply' = Threw(action, "title failed")
       ELSE reply' = Returned(action, [action.result EXCEPT !.title = "title of " \o location])
    /\ action' = NoAction
    /\ ops' = Done(ops, outcome)
    /\ UNCHANGED <<browser, engines, pages, sessions, diag, arrived, calls, net, location>>

\* a result that carries the URL only when the page has moved
Settled_ifNavigated(a, loc) ==
    IF loc = a.from THEN a.result ELSE [a.result EXCEPT !.url = loc]

\* lines 70 and 121: result.url = page.url()
Settled(a, loc) == [a.result EXCEPT !.url = loc]

\* a wait whose rejection is passed on
performAction_wait_strict(outcome, loc) ==
    /\ action.pc = "wait"
    /\ location' = loc
    /\ IF outcome = "fail"
       THEN reply' = Threw(action, "waitForLoadState failed")
       ELSE reply' = Returned(action, Settled(action, loc))
    /\ action' = NoAction
    /\ ops' = Done(ops, outcome)
    /\ UNCHANGED <<browser, engines, pages, sessions, diag, arrived, calls, net>>

\* waitForLoadState settles, resolved or rejected (.catch(() => {})), while a
\* navigation the click or key press started may commit: lines 69-70, 120-121
performAction_wait(outcome, loc) ==
    /\ action.pc = "wait"
    /\ location' = loc
    /\ reply' = Returned(action, Settled(action, loc))
    /\ action' = NoAction
    /\ ops' = Done(ops, outcome)
    /\ UNCHANGED <<browser, engines, pages, sessions, diag, arrived, calls, net>>

(* --------------------------- describe tool ---------------------------- *)
\* describe.ts lines 65-68: no vision provider is configured
NotConfigured(sessionId) ==
    [op |-> "describe", ret |-> "failure", session |-> sessionId, configured |-> FALSE,
     error |-> "Vision not configured"]

\* a not-found answer that names no session
DescribeNotFound_bare(sessionId) ==
    [op |-> "describe", ret |-> "error", session |-> sessionId, configured |-> TRUE,
     availableSessions |-> <<>>]

\* describe.ts lines 73-76
DescribeNotFound(sessionId) ==
    [op |-> "describe", ret |-> "error", session |-> sessionId, configured |-> TRUE,
     availableSessions |-> listSessions]

\* describe.ts lines 89-92, 112-115 and the failure object of describeImage
DescribeFailure(c, error) ==
    [op |-> "describe", ret |-> "failure", session |-> c.name, configured |-> TRUE,
     error |-> error]

\* the success object of describeImage, vision/index.ts lines 78-82
Described(c) ==
    [op |-> "describe", ret |-> "result", session |-> c.name, configured |-> TRUE]

\* describe.ts lines 61-87 and 98: the handler up to its first await;
\* configured is isConfigured() at the time of the call
describe_call(sessionId, configured, selector) ==
    IF ~configured
    THEN /\ reply' = NotConfigured(sessionId)
         /\ UNCHANGED <<browser, engines, pages, sessions, diag, arrived, calls, net, tools>>
    ELSE IF ~SessionsHas(sessionId)
    THEN /\ reply' = DescribeNotFound(sessionId)
         /\ UNCHANGED <<browser, engines, pages, sessions, diag, arrived, calls, net, tools>>
    ELSE /\ BagCardinality(calls) < Cardinality(Clients)
         /\ reply' = NoReply
         /\ Registry(browser, engines, pages, sessions,
                     calls (+) One(NewCall("describe",
                                           IF Falsy(selector) THEN "screenshot" ELSE "count",
                                           sessionId, 0, getSession(sessionId).page, 0)))

\* the call c ends with the answer r
describe_return(c, r) ==
    /\ reply' = r
    /\ Registry(browser, engines, pages, sessions, calls (-) One(c))

\* element.count() settled: describe.ts lines 87-95, 111-116
describe_count(c, outcome, count) ==
    /\ c.op = "describe" /\ c.pc = "count"
    /\ outcome = "ok" => pages[c.page].st = "open"
    /\ IF outcome = "fail" THEN describe_return(c, DescribeFailure(c, "count failed"))
       ELSE IF count = 0 THEN describe_return(c, DescribeFailure(c, "Element not found"))
       ELSE /\ reply' = NoReply
            /\ Registry(browser, engines, pages, sessions,
                        (calls (-) One(c)) (+) One([c EXCEPT !.pc = "screenshot"]))

\* the screenshot settled: describe.ts lines 95, 98-108, 111-116
describe_screenshot(c, outcome) ==
    /\ c.op = "describe" /\ c.pc = "screenshot"
    /\ outcome = "ok" => pages[c.page].st = "open"
    /\ IF outcome = "fail" THEN describe_return(c, DescribeFailure(c, "screenshot failed"))
       ELSE /\ reply' = NoReply
            /\ Registry(browser, engines, pages, sessions,
                        (calls (-) One(c)) (+) One([c EXCEPT !.pc = "vision"]))

\* describeImage settled: describe.ts lines 108-110, vision/index.ts lines 58-90
describe_vision(c, outcome) ==
    /\ c.op = "describe" /\ c.pc = "vision"
    /\ IF outcome = "fail" THEN describe_return(c, DescribeFailure(c, "Vision API error"))
       ELSE describe_return(c, Described(c))

(* -------------------------- sequence runner --------------------------- *)
\* the steps a sequence is made of: three actions and an assertion
FillStep ==
    [kind |-> "action", type |-> "fill", selector |-> "#a", value |-> "up", url |-> Missing]
ClickStep ==
    [kind |-> "action", type |-> "click", selector |-> "#a", value |-> Missing, url |-> Missing]
NavigateStep ==
    [kind |-> "action", type |-> "navigate", selector |-> Missing, value |-> Missing, url |-> "/2"]
BadFillStep ==
    [kind |-> "action", type |-> "fill", selector |-> "#a", value |-> Missing, url |-> Missing]
AssertStep ==
    [kind |-> "assert", type |-> "element_exists", selector |-> "#a", value |-> Missing,
     url |-> Missing]
StepAlphabet == {FillStep, ClickStep, NavigateStep, BadFillStep, AssertStep}
StepLists == UNION {[1..n -> StepAlphabet] : n \in 0..MaxSteps}

\* what the evaluator of an assertion does: returns a boolean or throws
Verdicts == {"true", "false", "throws"}

\* NotStarted -> Running: nothing attempted yet
Running(steps) ==
    [state |-> "Running", steps |-> steps, total |-> Len(steps), completed |-> 0,
     success |-> FALSE, events |-> <<>>, attempts |-> <<>>, final_state |-> Unset]

\* the snapshot of the session state
Snapshot(loc) == [url |-> loc]

\* no step of the run r is being executed
BetweenSteps(r) == r.state = "Running" /\ Len(r.attempts) = Len(r.events)

\* the step that the run r executes next
NextStep(r) == r.steps[Len(r.events) + 1]

\* (history) the run r starts to execute its next step
Attempt(r) == [r EXCEPT !.attempts = Append(@, Len(r.events) + 1)]

\* a runner that does not count the failing step
Outcome_prior(r, ok, loc) ==
    LET k == Len(r.events) + 1
        evs == Append(r.events, [step |-> k, kind |-> r.steps[k].kind, success |-> ok])
    IN  IF ~ok
        THEN [r EXCEPT !.state = "Aborted", !.events = evs, !.completed = k - 1,
                       !.success = FALSE, !.final_state = Snapshot(loc)]
        ELSE IF k = r.total
        THEN [r EXCEPT !.state = "Completed", !.events = evs, !.completed = k,
                       !.success = TRUE, !.final_state = Snapshot(loc)]
        ELSE [r EXCEPT !.events = evs, !.completed = k]

\* a runner that goes on after a failure
Outcome_continue(r, ok, loc) ==
    LET k == Len(r.events) + 1
        evs == Append(r.events, [step |-> k, kind |-> r.steps[k].kind, success |-> ok])
    IN  IF k = r.total
        THEN [r EXCEPT !.state = IF ok THEN "Completed" ELSE "Aborted", !.events = evs,
                       !.completed = k, !.success = ok, !.final_state = Snapshot(loc)]
        ELSE [r EXCEPT !.events = evs, !.completed = k]

\* steps 3 to 5 of the run loop: the step being executed ended, with success
\* or not, while the page is at loc
Outcome(r, ok, loc) ==
    LET k == Len(r.events) + 1
        evs == Append(r.events, [step |-> k, kind |-> r.steps[k].kind, success |-> ok])
    IN  IF ~ok
        THEN [r EXCEPT !.state = "Aborted", !.events = evs, !.completed = k,
                       !.success = FALSE, !.final_state = Snapshot(loc)]
        ELSE IF k = r.total
        THEN [r EXCEPT !.state = "Completed", !.events = evs, !.completed = k,
                       !.success = TRUE, !.final_state = Snapshot(loc)]
        ELSE [r EXCEPT !.events = evs, !.completed = k]

\* the runner takes what performAction gave in this step, if it ended
Delegated(r) ==
    IF reply'.op = "action" THEN Outcome(r, reply'.ret = "result", location') ELSE r

\* run_sequence is called with the list steps
run_start(steps) ==
    /\ run.state # "Running"
    /\ action = NoAction
    /\ run' = IF steps = <<>>
              THEN [Running(steps) EXCEPT !.state = "Completed", !.success = TRUE,
                                          !.final_state = Snapshot(location)]
              ELSE Running(steps)
    /\ reply' = NoReply
    /\ UNCHANGED <<browser, engines, pages, sessions, diag, arrived, calls, net,
                   action, ops, location>>

\* step 1: an action step is handed to performAction
run_action ==
    /\ BetweenSteps(run)
    /\ NextStep(run).kind = "action"
    /\ performAction_call(NextStep(run).type, NextStep(run).selector,
                          NextStep(run).value, NextStep(run).url)
    /\ run' = Delegated(Attempt(run))

\* the page operations of the action step settle
run_primary(outcome, loc) ==
    /\ run.state = "Running"
    /\ performAction_primary(outcome, loc)
    /\ run' = Delegated(run)

run_title(outcome) ==
    /\ run.state = "Running"
    /\ performAction_title(outcome)
    /\ run' = Delegated(run)

run_wait(outcome, loc) ==
    /\ run.state = "Running"
    /\ performAction_wait(outcome, loc)
    /\ run' = Delegated(run)

\* step 2: an assertion step is handed to the evaluator, which answers verdict
run_assert(verdict) ==
    /\ BetweenSteps(run)
    /\ NextStep(run).kind = "assert"
    /\ run' = Outcome(Attempt(run), verdict = "true", location)
    /\ reply' = NoReply
    /\ UNCHANGED <<browser, engines, pages, sessions, diag, arrived, calls, net,
                   action, ops, location>>

(* ------------------------- specifications ----------------------------- *)
Next ==
    \/ \E n \in Names : openSession_call(n)
    \/ \E c \in InFlight : openSession_launched(c)
    \/ \E c \in InFlight : openSession_newPage(c)
    \/ \E c \in InFlight : openSession_viewport(c)
    \/ \E c \in InFlight : openSession_goto(c)
    \/ \E n \in Names : closeSession_call(n)
    \/ \E c \in InFlight : closeSession_pageClosed(c)
    \/ \E c \in InFlight : closeSession_browserClosed(c)
    \/ shutdown_call
    \/ \E c \in InFlight : shutdown_pageClosed(c)
    \/ \E c \in InFlight : shutdown_browserClosed(c)
    \/ \E p \in PageIds : Buffered < MaxLog /\ console(p, "log")

\* the registry: callers open, close and shut down concurrently
Spec == Init /\ [][Next]_vars

\* one engine, every name of Names registered with an open page, nothing logged
DiagInit ==
    /\ browser = 1
    /\ engines = [e \in EngineIds |-> IF e = 1 THEN "up" ELSE "free"]
    /\ pages = [p \in PageIds |-> IF p[2] = 1 THEN [engine |-> 1, st |-> "open"]
                                  ELSE NoPageRec]
    /\ sessions \in {<<[id |-> "a", page |-> <<"a", 1>>], [id |-> "b", page |-> <<"b", 1>>]>>}
    /\ diag = [p \in PageIds |-> NoDiag]
    /\ arrived = [p \in PageIds |-> NoDiag]
    /\ calls = EmptyBag
    /\ pendingRequests = {}
    /\ requests = EmptyBag
    /\ now = 0
    /\ ToolsIdle
    /\ reply = NoReply

DiagNext ==
    \/ \E p \in PageIds, level \in Levels :
         Buffered + BagCardinality(requests) < MaxEvents /\ console(p, level)
    \/ \E p \in PageIds, url \in Urls :
         Buffered + BagCardinality(requests) < MaxEvents /\ request(p, url)
    \/ \E r \in BagToSet(requests), status \in StatusCodes : response(r, status)
    \/ \E sessionId \in Names \cup {Unknown}, type \in Types, level \in {NoLevel, "error"},
          limit \in Limits, clear \in BOOLEAN :
         handler(sessionId, type, level, limit, clear)

\* two sessions whose pages log and load while the diagnostics tool is called
DiagSpec == DiagInit /\ [][DiagNext]_vars

NetNext ==
    \/ \E p \in PageIds, url \in Urls :
         Buffered + BagCardinality(requests) < MaxEvents /\ request(p, url)
    \/ \E r \in BagToSet(requests), status \in StatusCodes : response(r, status)
    \/ \E r \in BagToSet(requests) : requestfailed(r)
    \/ now < MaxClock /\ Tick
    \/ \E sessionId \in Names, clear \in BOOLEAN :
         handler(sessionId, "network", NoLevel, DefaultLimit, clear)

\* two sessions whose pages load while time passes
NetSpec == DiagInit /\ [][NetNext]_vars

\* one session, nothing logged
BufInit ==
    /\ browser = 1
    /\ engines = [e \in EngineIds |-> IF e = 1 THEN "up" ELSE "free"]
    /\ pages = [p \in PageIds |-> IF p = FeedPage THEN [engine |-> 1, st |-> "open"]
                                  ELSE NoPageRec]
    /\ sessions = <<[id |-> FeedPage[1], page |-> FeedPage]>>
    /\ diag = [p \in PageIds |-> NoDiag]
    /\ arrived = [p \in PageIds |-> NoDiag]
    /\ calls = EmptyBag
    /\ pendingRequests = {}
    /\ requests = EmptyBag
    /\ now = 0
    /\ ToolsIdle
    /\ reply = NoReply

\* the level of the n-th message the page logs
LevelOf(n) == IF n % 3 = 0 THEN "error" ELSE "log"

\* the page fills one buffer at a time, past MAX_BUFFER_SIZE; the n-th request
\* is for URL n; the tool is called between two loads
BufNext ==
    \/ /\ Len(arrived[FeedPage].console) < MaxFeed
       /\ arrived[FeedPage].network = <<>> /\ requests = EmptyBag
       /\ console(FeedPage, LevelOf(Len(arrived[FeedPage].console) + 1))
    \/ /\ Len(arrived[FeedPage].network) < MaxFeed
       /\ arrived[FeedPage].console = <<>> /\ requests = EmptyBag
       /\ request(FeedPage, Len(arrived[FeedPage].network) + 1)
    \/ \E r \in BagToSet(requests), status \in StatusCodes : response(r, status)
    \/ \E type \in Types, level \in {NoLevel, "error"}, limit \in BufLimits, clear \in BOOLEAN :
         requests = EmptyBag /\ handler(FeedPage[1], type, level, limit, clear)

\* one session whose page fills a buffer past its capacity
BufSpec == BufInit /\ [][BufNext]_vars

\* every call the action tool can pass to performAction
ActNext ==
    \/ \E type \in ActionTypes \cup {Unknown}, selector \in Selectors,
          value \in Values, url \in UrlParams :
         performAction_call(type, selector, value, url) /\ UNCHANGED run
    \/ \E outcome \in Outcomes, loc \in Locations :
         performAction_primary(outcome, loc) /\ UNCHANGED run
    \/ \E outcome \in Outcomes : performAction_title(outcome) /\ UNCHANGED run
    \/ \E outcome \in Outcomes, loc \in Locations :
         performAction_wait(outcome, loc) /\ UNCHANGED run

\* one session whose page is acted on, one action at a time
ActSpec == BufInit /\ [][ActNext]_vars

\* the tools are called with registered, closed and never opened names
ToolNext ==
    \/ \E n \in Names : closeSession_call(n)
    \/ \E c \in InFlight : closeSession_pageClosed(c)
    \/ \E c \in InFlight : closeSession_browserClosed(c)
    \/ \E p \in PageIds : Buffered < MaxLog /\ console(p, "error")
    \/ \E sessionId \in Names \cup {Unknown}, type \in Types, clear \in BOOLEAN :
         handler(sessionId, type, NoLevel, DefaultLimit, clear)
    \/ \E sessionId \in Names \cup {Unknown}, configured \in BOOLEAN,
          selector \in {Missing, "#a"} :
         describe_call(sessionId, configured, selector)
    \/ \E c \in InFlight, outcome \in Outcomes, count \in {0, 1} :
         describe_count(c, outcome, count)
    \/ \E c \in InFlight, outcome \in Outcomes : describe_screenshot(c, outcome)
    \/ \E c \in InFlight, outcome \in Outcomes : describe_vision(c, outcome)

\* two sessions that are read, described and closed
ToolSpec == DiagInit /\ [][ToolNext]_vars

\* one session on which sequences are run, one after the other
SeqNext ==
    \/ \E steps \in StepLists : run_start(steps)
    \/ run_action
    \/ \E outcome \in Outcomes, loc \in Locations : run_primary(outcome, loc)
    \/ \E outcome \in Outcomes : run_title(outcome)
    \/ \E outcome \in Outcomes, loc \in Locations : run_wait(outcome, loc)
    \/ \E verdict \in Verdicts : run_assert(verdict)

SeqSpec == BufInit /\ [][SeqNext]_vars

\* one caller at a time opens and closes sessions whose pages log and load
LifeNext ==
    \/ \E n \in Names : calls = EmptyBag /\ openSession_call(n)
    \/ \E c \in InFlight : openSession_launched(c)
    \/ \E c \in InFlight : openSession_newPage(c)
    \/ \E c \in InFlight : openSession_viewport(c)
    \/ \E c \in InFlight : openSession_goto(c)
    \/ \E n \in Names : calls = EmptyBag /\ closeSession_call(n)
    \/ \E c \in InFlight : closeSession_pageClosed(c)
    \/ \E c \in InFlight : closeSession_browserClosed(c)
    \/ \E p \in PageIds :
         Buffered + BagCardinality(requests) < MaxLife /\ console(p, "log")
    \/ \E p \in PageIds, url \in Urls :
         Buffered + BagCardinality(requests) < MaxLife /\ requests = EmptyBag /\ request(p, url)
    \/ \E r \in BagToSet(requests), status \in StatusCodes : response(r, status)
    \/ \E r \in BagToSet(requests) : requestfailed(r)
    \/ \E r \in BagToSet(requests) : requestfailed_late(r)

\* sessions are opened, closed and reopened while their pages emit events
LifeSpec == Init /\ [][LifeNext]_vars

(* ------------------------------ claims -------------------------------- *)
\* the calls of bag B that are op calls for the name n
CallsFor(B, op, n) == BagSum(B, {c \in BagToSet(B) : c.op = op /\ c.name = n})

\* those of them that are suspended at pc
CallsAt(B, op, pc, n) ==
    BagSum(B, {c \in BagToSet(B) : c.op = op /\ c.pc = pc /\ c.name = n})

\* C1: while a session named n is registered, openSession(n) does not get
\* past its check (no open call for n starts), the duplicate-session error is
\* only raised for a registered name, and the step that raises it changes
\* nothing: registry, pages, buffers, engine handle and engines stay as they
\* were and no page is created.
C1_DuplicateOpenRejected ==
    [][/\ \A n \in Names :
            (\E i \in 1..Len(sessions) : sessions[i].id = n) =>
                CallsFor(calls', "open", n) <= CallsFor(calls, "open", n)
       /\ (reply'.op = "open" /\ reply'.ret = "duplicate") =>
            /\ \E i \in 1..Len(sessions) : sessions[i].id = reply'.name
            /\ UNCHANGED <<browser, engines, pages, sessions, diag, arrived, calls, net, tools>>
      ]_vars

\* a duplicate open was rejected for a session whose console buffer holds an entry
C1_Witness ==
    /\ reply.op = "open" /\ reply.ret = "duplicate"
    /\ \E i \in 1..Len(sessions) :
         sessions[i].id = reply.name /\ diag[sessions[i].page].console # <<>>

\* C2: under any interleaving of open calls, an openSession(n) only succeeds
\* when no session named n is registered (at most one open succeeds for a name
\* while it stays open, and no registered page is overwritten).
C2_OneSuccessPerName ==
    [][(reply'.op = "open" /\ reply'.ret = "ok") =>
          ~\E i \in 1..Len(sessions) : sessions[i].id = reply'.name]_vars

\* C3: a step of closeSession never stops an engine that an openSession call
\* in flight has obtained and that is still connected.
C3_EngineOnlyStoppedWhenLast ==
    [][reply'.op = "close" =>
          \A c \in InFlight : (c.op = "open" /\ Connected(c.b)) => engines'[c.b] = "up"]_vars

\* C4: whenever no registry call is in flight, the engine handle is non-null
\* if and only if a session is registered.
C4_EngineIffSessions ==
    calls = EmptyBag => (browser # 0 <=> sessions # <<>>)

\* C5: while n is not registered, closeSession(n) does not get past its lookup
\* (no close call for n starts); it returns false only for a name that is not
\* registered, and that step changes nothing (registry, pages, buffers, engine
\* handle, engines); a close call whose page close resolved has removed its
\* name from the registry in that step, and true is only ever returned by a
\* call that found its name registered.
C5_CloseSession ==
    [][/\ \A n \in Names :
            (~\E i \in 1..Len(sessions) : sessions[i].id = n) =>
                CallsFor(calls', "close", n) <= CallsFor(calls, "close", n)
       /\ (reply'.op = "close" /\ reply'.ret = "false") =>
            /\ ~\E i \in 1..Len(sessions) : sessions[i].id = reply'.name
            /\ UNCHANGED <<browser, engines, pages, sessions, diag, arrived, calls, net, tools>>
       /\ \A n \in Names :
            (/\ CallsAt(calls', "close", "pageClose", n) < CallsAt(calls, "close", "pageClose", n)
             /\ ~(reply'.op = "close" /\ reply'.ret = "threw")) =>
                /\ ~\E i \in 1..Len(sessions') : sessions'[i].id = n
                /\ \/ reply' = [op |-> "close", name |-> n, ret |-> "true"]
                   \/ CallsAt(calls', "close", "browserClose", n)
                        > CallsAt(calls, "close", "browserClose", n)
       /\ \A n \in Names :
            CallsAt(calls', "close", "browserClose", n) < CallsAt(calls, "close", "browserClose", n)
                => reply' = [op |-> "close", name |-> n, ret |-> "true"]
       /\ (reply'.op = "close" /\ reply'.ret = "true") =>
            CallsFor(calls', "close", reply'.name) < CallsFor(calls, "close", reply'.name)
      ]_vars

\* closeSession of an unknown name returned false with no session open and an
\* engine handle present
C5_Witness ==
    /\ reply.op = "close" /\ reply.ret = "false"
    /\ sessions = <<>> /\ browser # 0 /\ calls = EmptyBag

Kinds == {"console", "network"}

\* C7: every buffer holds at most 100 entries, and holds exactly the most
\* recent min(k, 100) of the k entries appended since its last clear, in
\* arrival order.
C7_BufferHoldsMostRecent ==
    \A p \in PageIds, kind \in Kinds :
        LET buffer == diag[p][kind]
            all == arrived[p][kind]
        IN  /\ Len(buffer) <= 100
            /\ Len(buffer) = Min(Len(all), 100)
            /\ buffer = SubSeq(all, Len(all) - Len(buffer) + 1, Len(all))

\* more than 100 entries were appended to a buffer, which is full
C7_Witness ==
    \E p \in PageIds, kind \in Kinds :
        Len(arrived[p][kind]) > 100 /\ Len(diag[p][kind]) = 100

\* the entries of buffer that a read with this level filter is about
Matching(buffer, kind, level) ==
    IF kind = "console" /\ level # NoLevel
    THEN SelectSeq(buffer, LAMBDA e : e.level = level)
    ELSE buffer

\* the page of the session that a successful diagnostics call r was about
PageOf(r) == (CHOOSE i \in 1..Len(sessions) : sessions[i].id = r.session)

\* C8: a diagnostics read with limit N returns, per requested kind, exactly
\* min(N, number of matching entries) entries: the N most recent matching
\* ones, most recent first.
C8_ReadReturnsMinLimit ==
    [][(reply'.op = "diagnostics" /\ reply'.ret = "result") =>
          \A kind \in Kinds :
              reply'.type \in {kind, "all"} =>
                  LET m == Matching(diag[sessions[PageOf(reply')].page][kind], kind, reply'.level)
                      n == Min(reply'.limit, Len(m))
                  IN  reply'[kind] = [i \in 1..n |-> m[Len(m) + 1 - i]]
      ]_vars

\* C9: a diagnostics call with clear = true returns entries of the buffer as
\* it was before the call (the most recent matching ones, most recent first,
\* all of them when the limit allows), the buffer is empty in the state the
\* call leaves (no entry is appended between the read and the clear), and a
\* diagnostics call that follows with no event in between returns an empty
\* list for each kind that was cleared.
C9_ReadThenClear ==
    [][/\ (reply'.op = "diagnostics" /\ reply'.ret = "result" /\ reply'.clear) =>
            \A kind \in Kinds :
                reply'.type \in {kind, "all"} =>
                    LET p == sessions[PageOf(reply')].page
                        m == Matching(diag[p][kind], kind, reply'.level)
                        r == reply'[kind]
                    IN  /\ Len(r) <= Len(m)
                        /\ \A i \in 1..Len(r) : r[i] = m[Len(m) + 1 - i]
                        /\ reply'.limit >= Len(m) => Len(r) = Len(m)
                        /\ diag'[p][kind] = <<>>
       /\ (/\ reply.op = "diagnostics" /\ reply.ret = "result" /\ reply.clear
           /\ reply'.op = "diagnostics" /\ reply'.ret = "result"
           /\ reply'.session = reply.session) =>
            \A kind \in Kinds :
                (reply.type \in {kind, "all"} /\ reply'.type \in {kind, "all"}) =>
                    reply'[kind] = <<>>
      ]_vars

\* a call with clear = true returned two console entries and left the buffer empty
C9_Witness ==
    /\ reply.op = "diagnostics" /\ reply.ret = "result" /\ reply.clear
    /\ Len(reply.console) = 2
    /\ diag[sessions[PageOf(reply)].page].console = <<>>

\* C10: a diagnostics call changes no buffer of another session; with type
\* 'console' or with clear = false it leaves the network buffer of its session
\* as it was, and with type 'network' or with clear = false the console buffer.
C10_ClearIndependent ==
    [][reply'.op = "diagnostics" =>
          IF reply'.ret = "error" THEN diag' = diag
          ELSE LET p == sessions[PageOf(reply')].page
               IN  /\ \A q \in PageIds \ {p} : diag'[q] = diag[q]
                   /\ (reply'.type = "console" \/ ~reply'.clear) =>
                        diag'[p].network = diag[p].network
                   /\ (reply'.type = "network" \/ ~reply'.clear) =>
                        diag'[p].console = diag[p].console
      ]_vars

\* a call cleared the console buffer of a session whose network buffer holds
\* an entry, while another session's console buffer holds one
C10_Witness ==
    /\ reply.op = "diagnostics" /\ reply.ret = "result"
    /\ reply.type = "console" /\ reply.clear /\ reply.console # <<>>
    /\ LET p == sessions[PageOf(reply)].page
       IN  /\ diag[p].console = <<>> /\ diag[p].network # <<>>
           /\ \E q \in PageIds \ {p} : diag[q].console # <<>>

\* C11: a step that handles the completion (response or failure) of a request
\* r appends exactly one entry, for r, to the network buffer of r's page and to
\* no other buffer; its duration is now - start (not negative) when the
\* pending map holds an entry with r's correlation id, and undefined when it
\* holds none.
C11_CompletionRecordsDuration ==
    [][BagCardinality(requests') < BagCardinality(requests) =>
          \E r \in BagToSet(requests) :
              LET old == arrived[r.page].network
                  new == arrived'[r.page].network
                  found == {q \in pendingRequests : q.id = r.id}
              IN  /\ requests' = requests (-) One(r)
                  /\ \A p \in PageIds \ {r.page} : arrived'[p] = arrived[p]
                  /\ arrived'[r.page].console = arrived[r.page].console
                  /\ Len(new) = Len(old) + 1
                  /\ SubSeq(new, 1, Len(old)) = old
                  /\ diag'[r.page].network[Len(diag'[r.page].network)] = new[Len(new)]
                  /\ new[Len(new)].url = r.url
                  /\ new[Len(new)].method = r.method
                  /\ IF found # {}
                     THEN \A q \in found : /\ new[Len(new)].duration = now - q.start
                                           /\ new[Len(new)].duration >= 0
                     ELSE new[Len(new)].duration = Undefined
      ]_vars

\* the buffers hold an entry with a duration of a millisecond and an entry
\* without duration
C11_Witness ==
    /\ \E p \in PageIds : \E i \in 1..Len(diag[p].network) :
         diag[p].network[i].duration = 1
    /\ \E p \in PageIds : \E i \in 1..Len(diag[p].network) :
         diag[p].network[i].duration = Undefined

\* C12: sessions share no mutable state: a step in which no request of page
\* p starts or completes (an event, read or clear of another session) leaves
\* the pending entry that the completion of a request of p in flight will
\* read, and so the duration it will record, as it was.
C12_SessionsShareNothing ==
    [][\A r \in BagToSet(requests) :
          (\A x \in BagToSet(requests) \cup BagToSet(requests') :
               x.page = r.page => CopiesIn(x, requests') = CopiesIn(x, requests))
            => {q \in pendingRequests' : q.id = r.id} = {q \in pendingRequests : q.id = r.id}
      ]_vars

\* C19 as stated: every request in flight still has its pending entry, so its
\* completion will find it
C19_OwnPendingEntry ==
    \A r \in BagToSet(requests) : \E q \in pendingRequests : q.id = r.id

\* C19, amended: a pending entry leaves the map only in a step that handles the
\* response or failure of a request with the entry's correlation id, no entry
\* with that id is in the map right after such a step, and a request start
\* leaves an entry with its id in the map.
C19_RemovedBySameId ==
    [][/\ \A q \in pendingRequests \ pendingRequests' :
             \E r \in BagToSet(requests) :
                 /\ r.id = q.id
                 /\ requests' = requests (-) One(r)
       /\ \A r \in BagToSet(requests) :
             requests' = requests (-) One(r) =>
                 ~ \E q \in pendingRequests' : q.id = r.id
       /\ \A r \in BagToSet(requests') :
             CopiesIn(r, requests') > CopiesIn(r, requests) =>
                 \E q \in pendingRequests' : q.id = r.id /\ q.start = now
      ]_vars

\* a request is in flight whose pending entry an earlier completion with the
\* same correlation id has removed
C19_Witness ==
    /\ \E r \in BagToSet(requests) : ~ \E q \in pendingRequests : q.id = r.id
    /\ \E p \in PageIds : \E i \in 1..Len(arrived[p].network) :
           arrived[p].network[i].duration # Undefined

\* the parameters that C13 lists as required are not all there
MissingRequired(a) ==
    \/ a.type = "navigate" /\ a.url = Missing
    \/ a.type \in {"click", "check", "uncheck", "highlight"} /\ a.selector = Missing
    \/ a.type \in {"fill", "select"} /\ (a.selector = Missing \/ a.value = Missing)
    \/ a.type = "press" /\ a.selector = Missing /\ a.value = Missing

\* C13: a call of performAction that lacks a required parameter raises an
\* error in its first step, before any operation is invoked on the page, and
\* leaves the page, the registry and the buffers as they were.
C13_ValidatesBeforeActing ==
    [][(action = NoAction /\ (action' # NoAction \/ reply'.op = "action")) =>
          LET a == IF action' # NoAction THEN action' ELSE reply'
          IN  MissingRequired(a) =>
                /\ action' = NoAction
                /\ reply'.op = "action" /\ reply'.ret = "threw"
                /\ ops' = <<>>
                /\ location' = location
                /\ UNCHANGED <<pages, sessions, diag, browser>>
      ]_vars

\* a fill without a value was rejected and no page operation was invoked
C13_Witness ==
    /\ reply.op = "action" /\ reply.ret = "threw"
    /\ reply.type = "fill" /\ reply.selector = "#a" /\ reply.value = Missing
    /\ ops = <<>>
    /\ action = NoAction

\* performAction has just returned a result for an action of this type
Succeeded(type) ==
    /\ reply.op = "action" /\ reply.ret = "result"
    /\ reply.type = type

\* C14 as stated: the result of a successful click carries the page's URL when
\* the click took the page to another URL and no url field when it did not
C14_UrlOnlyIfNavigated ==
    Succeeded("click") =>
        IF location # reply.from THEN reply.result.url = location
        ELSE reply.result.url = Unset

\* C14, amended: the result of a successful click always carries the URL the
\* page is at after the click: the new URL when the click navigated, the
\* unchanged URL when it did not.
C14_ClickReportsUrl ==
    Succeeded("click") =>
        /\ reply.result.url = location
        /\ reply.result.url # Unset

\* a click returned without having moved the page, and reports where the page is
C14_Witness ==
    /\ Succeeded("click")
    /\ location = reply.from
    /\ reply.result.url = reply.from

\* the operations of the last call that rejected
Failed == {i \in 1..Len(ops) : ops[i].st = "fail"}

\* C15: when the click or key press resolved, performAction returns a result
\* with success = true whether the wait that follows resolves or rejects, and
\* no call returns a result after a rejection of any other operation.
C15_OnlyWaitIsBestEffort ==
    (reply.op = "action" /\ action = NoAction) =>
        /\ (Len(ops) = 2 /\ ops[2].op = "waitForLoadState") =>
              /\ reply.type \in {"click", "press"}
              /\ ops[1].st = "ok"
              /\ reply.ret = "result"
              /\ reply.result.success
        /\ reply.ret = "result" =>
              \A i \in Failed : ops[i].op = "waitForLoadState"
        /\ (\E i \in Failed : ops[i].op # "waitForLoadState") => reply.ret = "threw"

\* a click resolved, the wait after it rejected, and the call returned success
C15_Witness ==
    /\ Succeeded("click")
    /\ reply.result.success
    /\ Len(ops) = 2
    /\ ops[1] = [op |-> "click", st |-> "ok"]
    /\ ops[2] = [op |-> "waitForLoadState", st |-> "fail"]

\* C20: in every call of performAction the primary page operation of the
\* action is invoked at most once; an unknown action type raises an error with
\* no operation invoked; a call whose primary operation rejected (as it does for
\* a selector that matches nothing) raises an error; and every result that is
\* returned has success = true.
C20_NoRetryNoHiddenFailure ==
    /\ Cardinality({i \in 1..Len(ops) : ops[i].op \in PrimaryOps}) <= 1
    /\ \A i \in 2..Len(ops) : ops[i].op \notin PrimaryOps
    /\ (reply.op = "action" /\ action = NoAction) =>
          /\ reply.type \notin ActionTypes => reply.ret = "threw" /\ ops = <<>>
          /\ (ops # <<>> /\ ops[1].st = "fail") => reply.ret = "threw"
          /\ reply.ret = "result" =>
                /\ reply.result.success
                /\ reply.result.action = reply.type
                /\ ops # <<>> /\ ops[1].st = "ok"
                /\ NeedsMatch(reply.type, reply.selector) => reply.selector # NoMatch

\* a click on a selector that matches nothing was invoked once, rejected, and
\* the call raised the error
C20_Witness ==
    /\ reply.op = "action" /\ reply.ret = "threw"
    /\ reply.type = "click" /\ reply.selector = NoMatch
    /\ ops = <<[op |-> "click", st |-> "fail"]>>
    /\ action = NoAction

\* the step answers a call of the diagnostics or describe tool in the step of
\* the call, for a name that is not registered
NotFoundCall ==
    /\ reply'.op \in {"diagnostics", "describe"}
    /\ calls' = calls
    /\ ~SessionsHas(reply'.session)

\* the step changes nothing but the answer
NoStateChange ==
    UNCHANGED <<browser, engines, pages, sessions, diag, arrived, calls,
                pendingRequests, requests, now, action, ops, location, run>>

\* C16 as stated: a call of the diagnostics or describe tool for a name that
\* is not registered returns an error with the list of the open session names
\* and changes no state, whether or not a vision provider is configured
C16_NotFoundListsSessions ==
    [][NotFoundCall =>
          /\ reply'.ret = "error"
          /\ reply'.availableSessions = listSessions
          /\ NoStateChange
      ]_vars

\* C16, amended: a call for a name that is not registered changes no state; the
\* diagnostics tool, and the describe tool when a vision provider is
\* configured, return an error with the list of the open session names; the
\* describe tool without a provider returns its not-configured failure,
\* which carries no list.
C16_NotFoundWhenConfigured ==
    [][NotFoundCall =>
          /\ NoStateChange
          /\ IF reply'.op = "describe" /\ ~reply'.configured
             THEN reply' = NotConfigured(reply'.session)
             ELSE /\ reply'.ret = "error"
                  /\ reply'.availableSessions = listSessions
      ]_vars

\* describe was called, with a provider, for a session that had been closed,
\* and it answered with the one session still open
C16_Witness ==
    /\ reply.op = "describe" /\ reply.ret = "error"
    /\ reply.session = "a"
    /\ reply.availableSessions = <<"b">>
    /\ listSessions = <<"b">>

\* the run has produced its result
Finished == run.state \in {"Completed", "Aborted"}

\* every step of the sequence was executed and succeeded
EveryStepSucceeded ==
    /\ Len(run.events) = run.total
    /\ \A i \in 1..run.total : run.events[i].success

\* C17 as stated: in every result completed <= total, and completed = total
\* exactly when every step succeeded, which is exactly when success is true
C17_CompletedIffSucceeded ==
    Finished =>
        /\ run.completed <= run.total
        /\ run.completed = run.total <=> EveryStepSucceeded
        /\ run.success <=> EveryStepSucceeded

\* C17, amended: in every result completed <= total; success is true exactly
\* when every step succeeded, and then completed = total; completed counts the
\* failing step, so completed = total exactly when no step before the last one
\* failed.
C17_CompletedCountsAttempts ==
    Finished =>
        /\ run.completed <= run.total
        /\ run.success <=> EveryStepSucceeded
        /\ run.success => run.completed = run.total
        /\ run.completed = run.total <=>
              /\ Len(run.events) = run.total
              /\ \A i \in 1..(run.total - 1) : run.events[i].success

\* fill, click, then an assertion that fails: completed = 3, total = 3,
\* success = false
C17_Witness ==
    /\ run.state = "Aborted"
    /\ run.steps = <<FillStep, ClickStep, AssertStep>>
    /\ run.completed = 3 /\ run.total = 3
    /\ ~run.success

\* the events recorded are those of steps 1..k in order, all but possibly the
\* last one successes, and the steps begun are 1..k
RanInOrder(k) ==
    /\ Len(run.events) = k
    /\ \A i \in 1..k : run.events[i].step = i /\ run.events[i].kind = run.steps[i].kind
    /\ \A i \in 1..(k - 1) : run.events[i].success
    /\ run.attempts = [i \in 1..k |-> i]

\* C18: a run executes its steps in declared order and stops at the first
\* failure: when step k of n throws or its assertion is false the run is
\* Aborted with completed = k, total = n, success = false, k events in order,
\* no step after k begun and a snapshot of the session; when no step fails it
\* is Completed with completed = n and success = true; a running sequence has
\* begun no step after a failed one; and the step in which performAction
\* throws, or in which it returns, records the failure, or the success, of the
\* step being executed.
C18_OrderedShortCircuit ==
    [][/\ run'.state = "Aborted" =>
             /\ RanInOrder(run.completed)'
             /\ run'.completed \in 1..run'.total
             /\ run'.total = Len(run'.steps)
             /\ ~run'.events[run'.completed].success
             /\ ~run'.success
             /\ run'.final_state = Snapshot(location')
       /\ run'.state = "Completed" =>
             /\ RanInOrder(run.total)'
             /\ EveryStepSucceeded'
             /\ run'.completed = run'.total /\ run'.total = Len(run'.steps)
             /\ run'.success
             /\ run'.final_state = Snapshot(location')
       /\ run'.state = "Running" =>
             /\ Len(run'.attempts) - Len(run'.events) \in {0, 1}
             /\ run'.attempts = [i \in 1..Len(run'.attempts) |-> i]
             /\ \A i \in 1..Len(run'.events) : run'.events[i].success
       /\ (run.state = "Running" /\ reply'.op = "action") =>
             /\ Len(run'.events) = Len(run.events) + 1
             /\ run'.events[Len(run'.events)].success = (reply'.ret = "result")
             /\ reply'.ret = "threw" => run'.state = "Aborted"
       /\ (run.state = "Running" /\ run'.state = "Running") => run'.steps = run.steps
      ]_vars

\* step 2 of 3 threw: completed = 2, total = 3, and step 3 was never begun
C18_Witness ==
    /\ run.state = "Aborted"
    /\ run.total = 3 /\ run.completed = 2
    /\ run.attempts = <<1, 2>>
    /\ reply.op = "action" /\ reply.ret = "threw"
    /\ run.final_state = Snapshot(location)

\* the newest MAX_BUFFER_SIZE entries of seq
LastCap(seq) ==
    IF Len(seq) <= MAX_BUFFER_SIZE THEN seq
    ELSE SubSeq(seq, Len(seq) - MAX_BUFFER_SIZE + 1, Len(seq))

\* C21: when openSession returns, the buffers of the new session hold every
\* console message the page has logged and every request the page has
\* completed during the initial navigation (the newest MAX_BUFFER_SIZE of
\* them), because the observers were registered before the navigation began.
C21_NavigationEventsBuffered ==
    [][(reply'.op = "open" /\ reply'.ret = "ok") =>
          \E i \in 1..Len(sessions') :
              /\ sessions'[i].id = reply'.name
              /\ diag'[sessions'[i].page].console = LastCap(arrived'[sessions'[i].page].console)
              /\ diag'[sessions'[i].page].network = LastCap(arrived'[sessions'[i].page].network)
      ]_vars

\* openSession has just returned a session whose buffers already hold a
\* console message and a completed request of the initial navigation
C21_Witness ==
    /\ reply.op = "open" /\ reply.ret = "ok"
    /\ \E i \in 1..Len(sessions) :
          /\ sessions[i].id = reply.name
          /\ Len(diag[sessions[i].page].console) = 1
          /\ Len(diag[sessions[i].page].network) = 1

\* C22: a name is not registered while an openSession call for it is in
\* flight (getSession returns undefined and listSessions does not hold the
\* name), and the step in which an openSession call raises an error leaves the
\* registry holding the names it held.
C22_InvisibleWhileOpening ==
    [][/\ \A c \in BagToSet(calls') :
             c.op = "open" => ~ \E i \in 1..Len(sessions') : sessions'[i].id = c.name
       /\ (reply'.op = "open" /\ reply'.ret = "threw") => sessions' = sessions
      ]_vars

\* the elements of seq
Range(seq) == {seq[i] : i \in 1..Len(seq)}

\* the entries of buffer that a read with this level filter and a limit of at
\* least 1 does not return: those the filter excludes and, of the matching
\* ones, all but the limit newest
Unreturned(buffer, kind, level, limit) ==
    LET m == Matching(buffer, kind, level)
    IN  (Range(buffer) \ Range(m)) \cup {m[i] : i \in 1..(Len(m) - limit)}

\* C23: a diagnostics call with clear = true leaves each requested buffer
\* empty: the console entries its level filter excludes and the entries beyond
\* its limit are not in what it returns and are gone from the buffer.
C23_ClearDropsUnreturned ==
    [][(reply'.op = "diagnostics" /\ reply'.ret = "result" /\ reply'.clear) =>
          \A kind \in Kinds :
              reply'.type \in {kind, "all"} =>
                  LET p == sessions[PageOf(reply')].page
                  IN  /\ diag'[p][kind] = <<>>
                      /\ reply'.limit >= 1 =>
                            \A e \in Unreturned(diag[p][kind], kind, reply'.level, reply'.limit) :
                                e \notin Range(reply'[kind])
      ]_vars

\* a call with the default limit and clear = true returned the 50 newest of
\* the 100 console entries of a full buffer and left the buffer empty
C23_Witness ==
    /\ reply.op = "diagnostics" /\ reply.ret = "result" /\ reply.clear
    /\ reply.type = "console" /\ reply.level = NoLevel /\ reply.limit = DefaultLimit
    /\ Len(reply.console) = DefaultLimit
    /\ reply.console[1].text = MAX_BUFFER_SIZE
    /\ reply.console[DefaultLimit].text = MAX_BUFFER_SIZE - DefaultLimit + 1
    /\ diag[sessions[PageOf(reply)].page].console = <<>>

\* C24: a page that openSession creates starts with empty buffers, whatever
\* the buffers of an earlier session of the same name held; the buffers of a
\* registered session hold exactly the newest entries that its own page has
\* produced; and the late failure of a request of a closed page changes the
\* buffers of no registered session.
C24_NothingSurvivesClose ==
    [][/\ \A p \in PageIds :
             (pages[p].st # "open" /\ pages'[p].st = "open") => diag'[p] = NoDiag
       /\ \A i \in 1..Len(sessions') :
             /\ diag'[sessions'[i].page].console = LastCap(arrived'[sessions'[i].page].console)
             /\ diag'[sessions'[i].page].network = LastCap(arrived'[sessions'[i].page].network)
       /\ \A r \in BagToSet(requests) :
             (requests' = requests (-) One(r) /\ pages[r.page].st = "closed") =>
                 \A i \in 1..Len(sessions) :
                     diag'[sessions[i].page] = diag[sessions[i].page]
      ]_vars

\* a session was closed with a request in flight and reopened under the same
\* name; the request then failed: its entry is in the buffer of the old page
\* and the buffers of the new session are empty
C24_Witness ==
    \E p \in PageIds, q \in PageIds :
        /\ p # q /\ p[1] = q[1]
        /\ SessionsHas(p[1]) /\ getSession(p[1]).page = p
        /\ pages[p].st = "open" /\ pages[q].st = "closed"
        /\ requests = EmptyBag
        /\ Len(diag[q].network) = 1
        /\ diag[p] = NoDiag

\* the step leaves the Map, the engine handle, the engine and the pages of
\* the registered sessions as they were
RegistryUntouched ==
    /\ sessions' = sessions
    /\ browser' = browser
    /\ (browser # 0 => engines'[browser] = engines[browser])
    /\ \A i \in 1..Len(sessions) :
          pages'[sessions[i].page].st = pages[sessions[i].page].st

\* C25: the step in which closeSession or shutdown raises the error of a
\* failed page close changes neither the Map nor the engine: closeSession has
\* deleted nothing and closed no engine, and shutdown has not cleared the Map
\* nor closed the engine, so that after a shutdown that ran alone every session
\* is still registered for a retry.
C25_ErrorLeavesRegistry ==
    [][/\ (reply'.op = "close" /\ reply'.ret = "threw") =>
             /\ RegistryUntouched
             /\ \A i \in 1..Len(sessions) :
                   sessions[i].id = reply'.name =>
                       pages'[sessions[i].page].st = pages[sessions[i].page].st
       /\ (reply'.op = "shutdown" /\ reply'.ret = "threw") =>
             /\ RegistryUntouched
             /\ reply'.alone =>
                   /\ Len(sessions') >= reply'.closed
                   /\ sessions' # <<>>
      ]_vars

\* a shutdown that ran alone over two sessions failed to close the second
\* page: both sessions are still registered and the engine is still up
C25_Witness ==
    /\ reply.op = "shutdown" /\ reply.ret = "threw"
    /\ reply.alone /\ reply.closed = 2
    /\ Len(sessions) = 2
    /\ Connected(browser)

\* the pools of page and engine names never run out
PoolsSuffice ==
    /\ \A n \in Names :
         Cardinality({p \in PageIds : p[1] = n /\ pages[p].st = "free"})
           >= BagSum(calls, {c \in InFlight : c.op = "open" /\ c.name = n /\ c.page = NoPage})
    /\ Cardinality({e \in EngineIds : engines[e] = "free"})
         >= BagSum(calls, {c \in InFlight : c.op = "open" /\ c.pc = "launch"})

=============================================================================
